---- MODULE Spec2Model ----
(* Model of the KTBB SSE engine (src/sse_engine.py): compute_dm_levels and  *)
(* its helpers _pct_diff, _frvp_alignment, _htf_strength,                    *)
(* _choose_daily_levels and _build_triggers.                                 *)
(*                                                                           *)
(* Numbers.  A price is an integer count of thousandths (One = 1.0).  The    *)
(* relative distance of _pct_diff is an exact rational [num, den].           *)
(* The trigger arithmetic of _build_triggers runs on a finer grid            *)
(* (Fine) on which span * 0.05, support * 0.0015 and the two halvings are    *)
(* exact.  The arithmetic is the exact one; binary floating-point rounding   *)
(* error is outside the model.                                               *)
EXTENDS Integers, Sequences, FiniteSets, TLC

\* ---------------------------------------------------------------------------
\* Number representation
\* ---------------------------------------------------------------------------

\* 1.0 on the price grid (the literal 1.0 of _pct_diff and of span).
One == 1000

\* 0.05 = 1 / EdgeDen: the share of the band kept free at each edge.
EdgeDen == 20

\* 0.0015 = LevelNum / LevelDen: the share of the support price kept free.
LevelNum == 3

LevelDen == 2000

\* Fine grid units per price grid unit: x / EdgeDen, x * LevelNum / LevelDen
\* and one halving of either are integers for every x on the price grid.
FineScale == 2 * LevelDen

\* The alignment thresholds 0.0015 and 0.0030 as StrongNum / PctDen and
\* LooseNum / PctDen.
StrongNum == 15

LooseNum == 30

PctDen == 10000

\* The step of the input form's number fields (0.1).
Step == 100

\* How many steps the swept shelf levels move away from their anchor.
MaxStep == 2

Abs(x) == IF x < 0 THEN -x ELSE x

Max2(a, b) == IF a >= b THEN a ELSE b

Min2(a, b) == IF a <= b THEN a ELSE b

\* The rational n/d (n >= 0, d > 0).
Rat(n, d) == [num |-> n, den |-> d]

\* a/b <= c/d for a, c >= 0 and b, d > 0, with no product that could leave
\* the 32-bit integers: compare the integer parts, then the reciprocals of
\* the fractional parts.
RECURSIVE FracLe(_, _, _, _)
FracLe(a, b, c, d) ==
    IF a \div b # c \div d THEN a \div b < c \div d
    ELSE IF a % b = 0 THEN TRUE
    ELSE IF c % d = 0 THEN FALSE
    ELSE FracLe(d, c % d, b, a % b)

RatLe(x, y) == FracLe(x.num, x.den, y.num, y.den)

\* The smaller of two rationals, the first one on a tie.
RatMin2(x, y) == IF RatLe(x, y) THEN x ELSE y

\* Python's min() over a non-empty sequence of rationals.
RECURSIVE MinRat(_)
MinRat(s) == IF Len(s) = 1 THEN s[1] ELSE RatMin2(s[1], MinRat(Tail(s)))

\* n/d rounded to the nearest integer, ties to even (d > 0).
RoundHalfEven(n, d) ==
    LET q == n \div d
        r == n % d
    IN  IF 2 * r < d THEN q
        ELSE IF 2 * r > d THEN q + 1
        ELSE IF q % 2 = 0 THEN q ELSE q + 1

\* A price on the fine grid.
Fine(x) == x * FineScale

\* round(x, 1) of a fine-grid value, as a count of tenths.
Round1(x) == RoundHalfEven(x, Fine(One \div 10))

\* ---------------------------------------------------------------------------
\* Helper functions
\* ---------------------------------------------------------------------------

\* A slip that floors the denominator at 1.0 for every reference below 1.0.
_pct_diff_floor_one(a, b) ==
    LET denom == IF Abs(b) > One THEN Abs(b) ELSE One
    IN  Rat(Abs(a - b), denom)

\* abs(b) > 1e-9: on the price grid every non-zero value exceeds 1e-9.
_pct_diff(a, b) ==
    LET denom == IF Abs(b) > 0 THEN Abs(b) ELSE One
    IN  Rat(Abs(a - b), denom)

\* A slip that swaps the two scores.
alignment_score_swapped(min_pct) ==
    IF RatLe(min_pct, Rat(StrongNum, PctDen)) THEN 1
    ELSE IF RatLe(min_pct, Rat(LooseNum, PctDen)) THEN 2
    ELSE 0

\* The score of the minimum relative distance (lines 68-72).
alignment_score(min_pct) ==
    IF RatLe(min_pct, Rat(StrongNum, PctDen)) THEN 2
    ELSE IF RatLe(min_pct, Rat(LooseNum, PctDen)) THEN 1
    ELSE 0

\* The reference marks a role is scored against (lines 60-63).
role_candidates(role, weekly_val, weekly_poc, weekly_vah, f24_val, f24_poc, f24_vah) ==
    IF role = "resistance"
    THEN <<weekly_vah, weekly_poc, f24_vah, f24_poc>>
    ELSE <<weekly_val, weekly_poc, f24_val, f24_poc>>

\* min(_pct_diff(level, x) for x in candidates) (line 66).
min_pct_of(level, candidates) ==
    MinRat([i \in 1..Len(candidates) |-> _pct_diff(level, candidates[i])])

_frvp_alignment(level, role, weekly_val, weekly_poc, weekly_vah, f24_val, f24_poc, f24_vah) ==
    alignment_score(min_pct_of(level, role_candidates(role, weekly_val, weekly_poc,
                                                      weekly_vah, f24_val, f24_poc,
                                                      f24_vah)))

\* A slip that gives both timeframes the same structural tag.
structural_tag_untagged(tf) == 0

structural_tag(tf) == IF tf = "4H" THEN 1 ELSE 0

\* The strength as a count of tenths: round(max(0, min(10, raw * 10/12)), 1).
strength_of(frvp_align, tf) ==
    LET touches == 1
        volume_rating == 1
        raw == 3 * touches + 2 * volume_rating + 2 * frvp_align
               + 1 * structural_tag(tf)
    IN  RoundHalfEven(Max2(0, Min2(100 * 12, raw * 100)), 12)

_htf_strength(level, tf, role, weekly_val, weekly_poc, weekly_vah, f24_val, f24_poc, f24_vah) ==
    strength_of(_frvp_alignment(level, role, weekly_val, weekly_poc,
                               weekly_vah, f24_val, f24_poc, f24_vah), tf)

\* primary_support_tf / primary_res_tf: the timeframe of the stronger shelf.
primary_tf(s4, s1) == IF s4 >= s1 THEN "4H" ELSE "1H"

\* A slip that copies the 4H record's primary flag into the 1H record.
shelves_copied_flag(l4, s4, l1, s1, ptf) ==
    << [tf |-> "4H", level |-> l4, strength |-> s4, primary |-> (ptf = "4H")],
       [tf |-> "1H", level |-> l1, strength |-> s1, primary |-> (ptf = "4H")] >>

shelves(l4, s4, l1, s1, ptf) ==
    << [tf |-> "4H", level |-> l4, strength |-> s4, primary |-> (ptf = "4H")],
       [tf |-> "1H", level |-> l1, strength |-> s1, primary |-> (ptf = "1H")] >>

\* A slip that takes the higher demand shelf as the fallback support.
fallback_levels_max_demand(h4_supply, h4_demand, h1_supply, h1_demand) ==
    [ daily_support    |-> Max2(h4_demand, h1_demand),
      daily_resistance |-> Max2(h4_supply, h1_supply) ]

\* The fallback pair of the safety check (lines 245-246).
fallback_levels(h4_supply, h4_demand, h1_supply, h1_demand) ==
    [ daily_support    |-> Min2(h4_demand, h1_demand),
      daily_resistance |-> Max2(h4_supply, h1_supply) ]

\* The selection of _choose_daily_levels from the four strengths
\* (lines 174-248); sel_support and sel_resistance are the daily levels
\* before the safety check.
select_levels(h4_supply, h4_demand, h1_supply, h1_demand, s4h, s1h, r4h, r1h) ==
    LET primary_support_tf == primary_tf(s4h, s1h)
        sel_support == IF primary_support_tf = "4H" THEN h4_demand ELSE h1_demand
        primary_res_tf == primary_tf(r4h, r1h)
        sel_resistance == IF primary_res_tf = "4H" THEN h4_supply ELSE h1_supply
        inverted == sel_support >= sel_resistance
        fb == fallback_levels(h4_supply, h4_demand, h1_supply, h1_demand)
    IN  [ sel_support      |-> sel_support,
          sel_resistance   |-> sel_resistance,
          daily_support    |-> IF inverted THEN fb.daily_support ELSE sel_support,
          daily_resistance |-> IF inverted THEN fb.daily_resistance
                               ELSE sel_resistance,
          htf_resistance   |-> shelves(h4_supply, r4h, h1_supply, r1h, primary_res_tf),
          htf_support      |-> shelves(h4_demand, s4h, h1_demand, s1h, primary_support_tf) ]

_choose_daily_levels(h4_supply, h4_demand, h1_supply, h1_demand, weekly_val, weekly_poc, weekly_vah, f24_val, f24_poc, f24_vah) ==
    select_levels(h4_supply, h4_demand, h1_supply, h1_demand,
        _htf_strength(h4_demand, "4H", "support", weekly_val, weekly_poc,
                     weekly_vah, f24_val, f24_poc, f24_vah),
        _htf_strength(h1_demand, "1H", "support", weekly_val, weekly_poc,
                     weekly_vah, f24_val, f24_poc, f24_vah),
        _htf_strength(h4_supply, "4H", "resistance", weekly_val, weekly_poc,
                     weekly_vah, f24_val, f24_poc, f24_vah),
        _htf_strength(h1_supply, "1H", "resistance", weekly_val, weekly_poc,
                     weekly_vah, f24_val, f24_poc, f24_vah))

SetMax(S) == CHOOSE x \in S : \A y \in S : y <= x

SetMin(S) == CHOOSE x \in S : \A y \in S : x <= y

\* The initial directional candidates (lines 282-298).
breakout_candidate_of(h1_supply, h4_supply, f24_vah, f24_poc, morn_vah, r30_high) ==
    SetMax({h1_supply, h4_supply, f24_vah, f24_poc, morn_vah, r30_high})

\* A slip that takes the highest of the downside levels.
breakdown_candidate_of_max(h1_demand, h4_demand, f24_val, f24_poc, morn_val, r30_low) ==
    SetMax({h1_demand, h4_demand, f24_val, f24_poc, morn_val, r30_low})

breakdown_candidate_of(h1_demand, h4_demand, f24_val, f24_poc, morn_val, r30_low) ==
    SetMin({h1_demand, h4_demand, f24_val, f24_poc, morn_val, r30_low})

\* max(span * 0.05, daily_support * 0.0015) for fine-grid span and support.
min_gap_of(span, S) == Max2(span \div EdgeDen, (S \div LevelDen) * LevelNum)

\* "First, push off absolute edges" (lines 304-311).
edge_clamp(breakdown_candidate, breakout_candidate, S, R, gap) ==
    [ breakdown |-> IF breakdown_candidate <= S + gap THEN S + gap
                    ELSE breakdown_candidate,
      breakout  |-> IF breakout_candidate >= R - gap THEN R - gap
                    ELSE breakout_candidate ]

\* "Ensure ordering; if too tight, center them" (lines 314-317).
recenter(e, S, R, gap) ==
    IF e.breakout <= e.breakdown + gap
    THEN LET mid == (S + R) \div 2
         IN  [ breakdown |-> mid - (gap \div 2), breakout |-> mid + (gap \div 2) ]
    ELSE e

\* A slip that leaves out the lower bound of the breakout clamp.
hard_clamp_no_floor(c, S, R, gap) ==
    LET breakdown == Max2(S + gap, Min2(c.breakdown, R - 2 * gap))
        breakout == Min2(c.breakout, R - gap)
    IN  [ breakdown |-> breakdown, breakout |-> breakout ]

\* "Final hard clamp" (lines 320-321).
hard_clamp(c, S, R, gap) ==
    LET breakdown == Max2(S + gap, Min2(c.breakdown, R - 2 * gap))
        breakout == Max2(breakdown + gap, Min2(c.breakout, R - gap))
    IN  [ breakdown |-> breakdown, breakout |-> breakout ]

\* The prices of the result are on the fine grid; besides the returned pair
\* the record keeps the locals the pair was built from.
_build_triggers(daily_support, daily_resistance, h4_supply, h4_demand, h1_supply, h1_demand, f24_val, f24_poc, f24_vah, morn_val, morn_poc, morn_vah, r30_high, r30_low) ==
    LET S == Fine(daily_support)
        R == Fine(daily_resistance)
        span == Max2(R - S, Fine(One))
        breakout_candidate ==
            Fine(breakout_candidate_of(h1_supply, h4_supply, f24_vah, f24_poc,
                                       morn_vah, r30_high))
        breakdown_candidate ==
            Fine(breakdown_candidate_of(h1_demand, h4_demand, f24_val, f24_poc,
                                        morn_val, r30_low))
        min_gap_from_edges == min_gap_of(span, S)
        e == edge_clamp(breakdown_candidate, breakout_candidate, S, R,
                        min_gap_from_edges)
        c == recenter(e, S, R, min_gap_from_edges)
        h == hard_clamp(c, S, R, min_gap_from_edges)
    IN  [ breakdown |-> h.breakdown, breakout |-> h.breakout,
          breakdown_candidate |-> breakdown_candidate,
          breakout_candidate |-> breakout_candidate,
          edge |-> e,
          min_gap_from_edges |-> min_gap_from_edges ]

\* The return statement (lines 399-406): the four prices are rounded to one
\* decimal and held as counts of tenths.
returned(c, t) ==
    [ daily_support     |-> Round1(Fine(c.daily_support)),
      daily_resistance  |-> Round1(Fine(c.daily_resistance)),
      breakout_trigger  |-> Round1(t.breakout),
      breakdown_trigger |-> Round1(t.breakdown),
      htf_resistance    |-> c.htf_resistance,
      htf_support       |-> c.htf_support ]

\* Steps 2 and 3 of compute_dm_levels for the selector's result c.
triggers_and_return(c, h4_supply, h4_demand, h1_supply, h1_demand, f24_val, f24_poc, f24_vah, morn_val, morn_poc, morn_vah, r30_high, r30_low) ==
    returned(c, _build_triggers(c.daily_support, c.daily_resistance, h4_supply,
                               h4_demand, h1_supply, h1_demand, f24_val, f24_poc,
                               f24_vah, morn_val, morn_poc, morn_vah, r30_high,
                               r30_low))

compute_dm_levels(h4_supply, h4_demand, h1_supply, h1_demand, weekly_val, weekly_poc, weekly_vah, f24_val, f24_poc, f24_vah, morn_val, morn_poc, morn_vah, r30_high, r30_low) ==
    triggers_and_return(
        _choose_daily_levels(h4_supply, h4_demand, h1_supply, h1_demand,
                            weekly_val, weekly_poc, weekly_vah,
                            f24_val, f24_poc, f24_vah),
        h4_supply, h4_demand, h1_supply, h1_demand, f24_val, f24_poc, f24_vah,
        morn_val, morn_poc, morn_vah, r30_high, r30_low)

\* ---------------------------------------------------------------------------
\* One invocation of compute_dm_levels, statement by statement
\* ---------------------------------------------------------------------------

VARIABLES
    pc,          \* the position inside compute_dm_levels
    args,        \* the 15 arguments
    frvp_align,  \* the alignment scores computed inside the four _htf_strength calls
    chosen,      \* what _choose_daily_levels returned
    trig,        \* what _build_triggers returned (fine grid)
    result       \* the returned dict

vars == <<pc, args, frvp_align, chosen, trig, result>>

None == <<>>

\* The arguments a request can carry.  The shelves cover a wide band (90-110),
\* narrow bands (100 against 100.1 and 100.4), inverted shelves (supply 80
\* under demand 100) and levels below 1.0; the swept levels step away from an
\* anchor that a volume-profile mark can sit on.  The engine does not enforce
\* well-formed marks: one opening range has its high (97) under its low (98).
H4Supply == {80000, 100100, 100400, 110000}

H4Demand == {100000, 90000, 501}

H1Supply == {80000} \cup {110000 + k * Step : k \in 0..MaxStep}

H1Demand == {100000 - k * Step : k \in 0..MaxStep} \cup {90000, 502}

WeeklyVal == {500, 89800}

WeeklyPoc == {95000, 100000}

WeeklyVah == {109000, 110000}

F24Val == {0, 90000}

F24Poc == {96000}

F24Vah == {110200}

MornVal == {70000, 93000}

MornPoc == {97000}

MornVah == {105000}

R30High == {97000, 120000}

R30Low == {98000}

Inputs ==
    [ h4_supply : H4Supply, h4_demand : H4Demand,
      h1_supply : H1Supply, h1_demand : H1Demand,
      weekly_val : WeeklyVal, weekly_poc : WeeklyPoc, weekly_vah : WeeklyVah,
      f24_val : F24Val, f24_poc : F24Poc, f24_vah : F24Vah,
      morn_val : MornVal, morn_poc : MornPoc, morn_vah : MornVah,
      r30_high : R30High, r30_low : R30Low ]

Init ==
    /\ pc = "choose"
    /\ args \in Inputs
    /\ frvp_align = None
    /\ chosen = None
    /\ trig = None
    /\ result = None

AlignOf(level, role) ==
    _frvp_alignment(level, role, args.weekly_val, args.weekly_poc, args.weekly_vah,
                    args.f24_val, args.f24_poc, args.f24_vah)

\* Step 1 of compute_dm_levels: the call of _choose_daily_levels.
ChooseDailyLevels ==
    /\ pc = "choose"
    /\ chosen' = _choose_daily_levels(args.h4_supply, args.h4_demand,
                                     args.h1_supply, args.h1_demand,
                                     args.weekly_val, args.weekly_poc, args.weekly_vah,
                                     args.f24_val, args.f24_poc, args.f24_vah)
    /\ frvp_align' = [ s4h |-> AlignOf(args.h4_demand, "support"),
                       s1h |-> AlignOf(args.h1_demand, "support"),
                       r4h |-> AlignOf(args.h4_supply, "resistance"),
                       r1h |-> AlignOf(args.h1_supply, "resistance") ]
    /\ pc' = "triggers"
    /\ UNCHANGED <<args, trig, result>>

\* Step 2 of compute_dm_levels: the call of _build_triggers.
BuildTriggers ==
    /\ pc = "triggers"
    /\ trig' = _build_triggers(chosen.daily_support, chosen.daily_resistance,
                              args.h4_supply, args.h4_demand,
                              args.h1_supply, args.h1_demand,
                              args.f24_val, args.f24_poc, args.f24_vah,
                              args.morn_val, args.morn_poc, args.morn_vah,
                              args.r30_high, args.r30_low)
    /\ pc' = "return"
    /\ UNCHANGED <<args, frvp_align, chosen, result>>

\* The return statement of compute_dm_levels: the four prices rounded to one
\* decimal, the shelf lists as _choose_daily_levels built them.
Return ==
    /\ pc = "return"
    /\ result' = returned(chosen, trig)
    /\ pc' = "done"
    /\ UNCHANGED <<args, frvp_align, chosen, trig>>

Next == ChooseDailyLevels \/ BuildTriggers \/ Return

Spec == Init /\ [][Next]_vars

\* ---------------------------------------------------------------------------
\* Properties
\* ---------------------------------------------------------------------------

Chose == pc \in {"triggers", "return", "done"}

Built == pc \in {"return", "done"}

HTFAllEqual ==
    /\ args.h4_supply = args.h4_demand
    /\ args.h4_demand = args.h1_supply
    /\ args.h1_supply = args.h1_demand

WellFormedMarks ==
    /\ args.weekly_val <= args.weekly_poc /\ args.weekly_poc <= args.weekly_vah
    /\ args.f24_val <= args.f24_poc /\ args.f24_poc <= args.f24_vah
    /\ args.morn_val <= args.morn_poc /\ args.morn_poc <= args.morn_vah
    /\ args.r30_low <= args.r30_high

\* The safety check of _choose_daily_levels fired: the strength-selected
\* support is not below the strength-selected resistance.
SelectionInverted == chosen.sel_support >= chosen.sel_resistance

\* C1: whenever the four HTF shelf levels are not all equal, the returned
\* prices satisfy daily_support < breakdown_trigger < breakout_trigger <
\* daily_resistance.
C1_OrderingInvariant ==
    (pc = "done" /\ ~HTFAllEqual) =>
        /\ result.daily_support < result.breakdown_trigger
        /\ result.breakdown_trigger < result.breakout_trigger
        /\ result.breakout_trigger < result.daily_resistance

\* C2: whenever the strength-selected support is >= the strength-selected
\* resistance the min/max fallback is taken, and whenever the four HTF shelf
\* levels are not all equal the returned pair has daily_support <
\* daily_resistance.
C2_FallbackOrdersLevels ==
    Chose =>
        /\ SelectionInverted =>
              /\ chosen.daily_support = Min2(args.h4_demand, args.h1_demand)
              /\ chosen.daily_resistance = Max2(args.h4_supply, args.h1_supply)
        /\ ~HTFAllEqual => chosen.daily_support < chosen.daily_resistance

PrimaryLevel(list) == IF list[1].primary THEN list[1].level ELSE list[2].level

\* C6: the returned daily_support is the (rounded) level of the htf_support
\* record marked primary, and the returned daily_resistance is the (rounded)
\* level of the htf_resistance record marked primary.
C6_DailyLevelsArePrimaryLevels ==
    pc = "done" =>
        /\ result.daily_support = Round1(Fine(PrimaryLevel(result.htf_support)))
        /\ result.daily_resistance = Round1(Fine(PrimaryLevel(result.htf_resistance)))

\* Scenario B: the 4H supply shelf (80) lies under the 4H demand shelf (100)
\* and the marks are well formed.
ScenarioB ==
    /\ pc = "done"
    /\ args.h4_supply = 80 * One
    /\ args.h4_demand = 100 * One
    /\ WellFormedMarks

ReturnsMinMax ==
    /\ result.daily_support = Round1(Fine(Min2(args.h4_demand, args.h1_demand)))
    /\ result.daily_resistance = Round1(Fine(Max2(args.h4_supply, args.h1_supply)))

\* C3: in scenario B the engine returns daily_support = min(h4_demand,
\* h1_demand) and daily_resistance = max(h4_supply, h1_supply).
C3_ScenarioBReturnsMinMax == ScenarioB => ReturnsMinMax

\* C3 as amended: in scenario B the engine returns the min/max pair whenever
\* the strength-selected support is >= the strength-selected resistance, and
\* that is the case whenever the 4H shelf is primary for both roles; when the
\* selected pair is not inverted it returns the primary shelves' levels.
C3_ScenarioBInvertedReturnsMinMax ==
    ScenarioB =>
        /\ SelectionInverted => ReturnsMinMax
        /\ (result.htf_support[1].primary /\ result.htf_resistance[1].primary)
              => SelectionInverted
        /\ ~SelectionInverted =>
              /\ result.daily_support = Round1(Fine(PrimaryLevel(result.htf_support)))
              /\ result.daily_resistance =
                    Round1(Fine(PrimaryLevel(result.htf_resistance)))

\* Scenario B with both 4H shelves primary, where the fallback replaced the
\* selected support by the lower 1H demand shelf.
C3_Witness ==
    /\ ScenarioB
    /\ result.htf_support[1].primary /\ result.htf_resistance[1].primary
    /\ ReturnsMinMax
    /\ chosen.daily_support # chosen.sel_support
    /\ chosen.daily_support = args.h1_demand

ShelfPair(list, l4, l1) ==
    /\ Len(list) = 2
    /\ list[1].tf = "4H" /\ list[1].level = l4
    /\ list[2].tf = "1H" /\ list[2].level = l1
    /\ list[1].primary # list[2].primary
    /\ list[1].primary <=> (list[1].strength >= list[2].strength)

\* C4: each role's list holds exactly two shelf records in the order
\* [4H, 1H], exactly one of them primary; the 4H record is primary if and only
\* if strength(4H) >= strength(1H).
C4_TwoShelvesOnePrimary ==
    pc = "done" =>
        /\ ShelfPair(result.htf_support, args.h4_demand, args.h1_demand)
        /\ ShelfPair(result.htf_resistance, args.h4_supply, args.h1_supply)

\* A result whose support list has the 1H shelf primary and whose resistance
\* list has the 4H shelf primary.
C4_Witness ==
    /\ pc = "done"
    /\ result.htf_support[2].primary /\ ~result.htf_support[1].primary
    /\ result.htf_resistance[1].primary /\ ~result.htf_resistance[2].primary

StrengthsApart(list, a4, a1) ==
    /\ list[1].strength \in {50, 67, 83}
    /\ list[2].strength \in {42, 58, 75}
    /\ list[1].strength # list[2].strength
    /\ list[2].primary <=> (a1 > a4)

\* C10: for each role the 4H strength is one of 5.0, 6.7, 8.3 and the 1H
\* strength one of 4.2, 5.8, 7.5, so the two are never equal, and the 1H
\* shelf is primary if and only if its alignment score is strictly greater
\* than the 4H shelf's.
C10_StrengthsNeverTie ==
    Chose =>
        /\ StrengthsApart(chosen.htf_support, frvp_align.s4h, frvp_align.s1h)
        /\ StrengthsApart(chosen.htf_resistance, frvp_align.r4h, frvp_align.r1h)

\* Equal non-zero alignment on the resistance side (4H stays primary) and a
\* better aligned 1H shelf on the support side (1H is primary).
C10_Witness ==
    /\ Chose
    /\ frvp_align.r4h = frvp_align.r1h /\ frvp_align.r4h > 0
    /\ chosen.htf_resistance[1].primary
    /\ frvp_align.s1h > frvp_align.s4h
    /\ chosen.htf_support[2].primary

Refs(role) ==
    role_candidates(role, args.weekly_val, args.weekly_poc, args.weekly_vah,
                    args.f24_val, args.f24_poc, args.f24_vah)

\* The marks at the smallest relative distance from a level.
NearestRel(level, role) ==
    {i \in 1..4 : \A j \in 1..4 :
        RatLe(_pct_diff(level, Refs(role)[i]), _pct_diff(level, Refs(role)[j]))}

\* The marks at the smallest absolute distance from a level.
NearestAbs(level, role) ==
    {i \in 1..4 : \A j \in 1..4 :
        Abs(level - Refs(role)[i]) <= Abs(level - Refs(role)[j])}

Closer(l2, l1, ref) == Abs(l2 - ref) < Abs(l1 - ref)

\* Levels l1, l2 of one role with scores a1, a2: the claim for every mark
\* that is nearest to l1 in both senses of "nearest".
Monotone(l1, a1, l2, a2, role) ==
    \A i \in NearestRel(l1, role) \cap NearestAbs(l1, role) :
        /\ Closer(l2, l1, Refs(role)[i]) => a2 >= a1
        /\ Closer(l1, l2, Refs(role)[i]) => a2 <= a1

\* The amended claim: nearest is the smallest relative distance, and the
\* farther level must still have that mark as its nearest.
MonotoneSameMark(l1, a1, l2, a2, role) ==
    \A i \in NearestRel(l1, role) :
        /\ Closer(l2, l1, Refs(role)[i]) => a2 >= a1
        /\ (Closer(l1, l2, Refs(role)[i]) /\ i \in NearestRel(l2, role)) => a2 <= a1

\* C5: for a fixed role and fixed marks, a level strictly closer than L1 to
\* the mark nearest to L1 scores at least alignment(L1), and a level strictly
\* farther from that mark scores at most alignment(L1).
C5_AlignmentMonotone ==
    Chose =>
        /\ Monotone(args.h4_demand, frvp_align.s4h, args.h1_demand, frvp_align.s1h, "support")
        /\ Monotone(args.h1_demand, frvp_align.s1h, args.h4_demand, frvp_align.s4h, "support")
        /\ Monotone(args.h4_supply, frvp_align.r4h, args.h1_supply, frvp_align.r1h, "resistance")
        /\ Monotone(args.h1_supply, frvp_align.r1h, args.h4_supply, frvp_align.r4h, "resistance")

\* C5 as amended: a level strictly closer than L1 to the mark at the smallest
\* relative distance from L1 scores at least alignment(L1); a level strictly
\* farther from that mark scores at most alignment(L1) provided the mark is
\* also the one at the smallest relative distance from the farther level.
C5_AlignmentMonotoneSameMark ==
    Chose =>
        /\ MonotoneSameMark(args.h4_demand, frvp_align.s4h, args.h1_demand, frvp_align.s1h, "support")
        /\ MonotoneSameMark(args.h1_demand, frvp_align.s1h, args.h4_demand, frvp_align.s4h, "support")
        /\ MonotoneSameMark(args.h4_supply, frvp_align.r4h, args.h1_supply, frvp_align.r1h, "resistance")
        /\ MonotoneSameMark(args.h1_supply, frvp_align.r1h, args.h4_supply, frvp_align.r4h, "resistance")

\* Two supply levels off the mark they share as their nearest one, the 1H
\* level strictly closer to it and scored strictly higher than the 4H level.
C5_Witness ==
    /\ Chose
    /\ \E i \in NearestRel(args.h4_supply, "resistance")
                  \cap NearestRel(args.h1_supply, "resistance") :
          /\ Closer(args.h1_supply, args.h4_supply, Refs("resistance")[i])
          /\ args.h1_supply # Refs("resistance")[i]
    /\ frvp_align.r1h > frvp_align.r4h
    /\ frvp_align.r4h > 0

\* The denominator of the relative distance as the specification states it.
FloorOne(ref) == Max2(Abs(ref), One)

\* The denominator as amended: |ref| unless |ref| <= 1e-9, then 1.0.
FloorTiny(ref) == IF ref # 0 THEN Abs(ref) ELSE One

\* The reference scorer: 2 if some mark is within 0.0015, 1 if some mark is
\* within 0.0030, else 0, the distance to a mark being |level - ref| / Den(ref).
RefScore(level, role, Den(_)) ==
    IF \E i \in 1..4 :
          Abs(level - Refs(role)[i]) * PctDen <= StrongNum * Den(Refs(role)[i])
    THEN 2
    ELSE IF \E i \in 1..4 :
          Abs(level - Refs(role)[i]) * PctDen <= LooseNum * Den(Refs(role)[i])
    THEN 1
    ELSE 0

\* C7: the alignment score equals the reference scorer with the relative
\* distance |level - ref| / max(|ref|, 1.0).
C7_AlignmentIsFloorOneScore ==
    Chose =>
        /\ frvp_align.s4h = RefScore(args.h4_demand, "support", FloorOne)
        /\ frvp_align.s1h = RefScore(args.h1_demand, "support", FloorOne)
        /\ frvp_align.r4h = RefScore(args.h4_supply, "resistance", FloorOne)
        /\ frvp_align.r1h = RefScore(args.h1_supply, "resistance", FloorOne)

\* C7 as amended: the alignment score equals the reference scorer with the
\* relative distance |level - ref| / |ref|, the denominator being 1.0 only
\* for a mark of magnitude at most 1e-9.
C7_AlignmentIsFloorTinyScore ==
    Chose =>
        /\ frvp_align.s4h = RefScore(args.h4_demand, "support", FloorTiny)
        /\ frvp_align.s1h = RefScore(args.h1_demand, "support", FloorTiny)
        /\ frvp_align.r4h = RefScore(args.h4_supply, "resistance", FloorTiny)
        /\ frvp_align.r1h = RefScore(args.h1_supply, "resistance", FloorTiny)

\* A demand level scored against a mark between 0 and 1.0 and a mark of 0,
\* where the two denominators give different scores.
C7_Witness ==
    /\ Chose
    /\ args.weekly_val > 0 /\ args.weekly_val < One
    /\ args.f24_val = 0
    /\ frvp_align.s4h = 1
    /\ RefScore(args.h4_demand, "support", FloorOne) = 2

\* Other morning profiles and opening ranges a second call could carry:
\* below, inside and above the bands the shelves span.
OtherMornVal == {60 * One, 101 * One}

OtherMornPoc == {102 * One}

OtherMornVah == {99 * One, 130 * One}

OtherR30High == {99 * One, 130 * One}

OtherR30Low == {60 * One, 101 * One}

ResultWith(mv, mp, mh, rh, rl) ==
    compute_dm_levels(args.h4_supply, args.h4_demand, args.h1_supply, args.h1_demand,
                      args.weekly_val, args.weekly_poc, args.weekly_vah,
                      args.f24_val, args.f24_poc, args.f24_vah, mv, mp, mh, rh, rl)

ClaimGap(S, R) ==
    Max2(5 * (Fine(Max2(R - S, One)) \div 100), (15 * (Fine(S) \div 1000)) \div 10)

====
